---- MODULE Spec2Model ----
(***************************************************************************)
(* Model of ounass_comparator.py: the feed parser (parse_xml_feed with     *)
(* clean_price), the snapshot cache (load_or_fetch_feed_data under its     *)
(* st.cache_data memoization) and the filter/comparison pass of the        *)
(* script body.                                                            *)
(*                                                                         *)
(* Three specifications share the module:                                  *)
(*   SpecParse    parse_xml_feed applied to bounded feed documents         *)
(*   SpecCompare  the filter + comparison pass on two loaded snapshots     *)
(*   Spec         sequences of load_or_fetch_feed_data calls over time     *)
(***************************************************************************)
EXTENDS Integers, Sequences, FiniteSets, TLC

(***************************************************************************)
(* Bounds                                                                  *)
(***************************************************************************)
MaxItems == 2        \* items per feed document (SpecParse)
MaxRows == 2         \* rows per loaded snapshot (SpecCompare)
MaxTicks == 6        \* hours the clock may advance (Spec)

(***************************************************************************)
(* State                                                                   *)
(***************************************************************************)
\* parse_xml_feed: the document given, the position, the value returned
VARIABLES pdoc, ppc, pout

\* the script body from line 215 on
VARIABLES cpc, df_A, df_B, selected_brands, selected_categories,
          df_A_filtered, df_B_filtered,
          products_only_in_A_ids, products_only_in_B_ids, products_in_both_ids,
          df_only_in_A, df_only_in_B

\* load_or_fetch_feed_data and what it depends on
VARIABLES
    now,        \* the local clock, in hours since 00:00 of day 0
    source,     \* the document the feed URL serves
    disk,       \* SNAPSHOT_DIR: the snapshot file of each date
    memo,       \* the st.cache_data entry for (feed_key, feed_url)
    last,       \* the latest call: what it did and returned
    tracker     \* the call before it, and whether the source changed since

pvars == <<pdoc, ppc, pout>>
cinputs == <<df_A, df_B>>
cfilters == <<selected_brands, selected_categories>>
cresults == <<df_A_filtered, df_B_filtered, products_only_in_A_ids,
              products_only_in_B_ids, products_in_both_ids,
              df_only_in_A, df_only_in_B>>
cvars == <<cpc, cinputs, cfilters, cresults>>
lvars == <<now, source, disk, memo, last, tracker>>
vars == <<pvars, cvars, lvars>>

(***************************************************************************)
(* Python values                                                           *)
(***************************************************************************)
None == "<None>"     \* Python None / a missing cell
Truthy(s) == s # None /\ s # ""      \* `if s:` on an optional string
NoText == <<None>>                   \* None where the value is a character sequence
NotAvailable == [int |-> -1, frac |-> <<>>]     \* None where the value is a float

ATOM_NS == "{http://www.w3.org/2005/Atom}"

(***************************************************************************)
(* clean_price: strings are sequences of one-character strings; the float  *)
(* result is represented by its integer part and its fraction digits       *)
(* without trailing zeros; None is NotAvailable.                           *)
(***************************************************************************)
Digits == <<"0", "1", "2", "3", "4", "5", "6", "7", "8", "9">>
IsDigit(c) == \E i \in 1..10 : Digits[i] = c
DigitVal(c) == (CHOOSE i \in 1..10 : Digits[i] = c) - 1
IsPriceChar(c) == IsDigit(c) \/ c = "." \/ c = ","

\* re.search(r'[\d\.,]+', s): the leftmost maximal run, <<>> when none
FirstRun(s) ==
    LET starts == {i \in 1..Len(s) : IsPriceChar(s[i])}
    IN IF starts = {} THEN <<>>
       ELSE LET i == CHOOSE k \in starts : \A m \in starts : k <= m
                j == CHOOSE k \in i..Len(s) :
                        /\ \A m \in i..k : IsPriceChar(s[m])
                        /\ (k = Len(s) \/ ~IsPriceChar(s[k + 1]))
            IN SubSeq(s, i, j)

RemoveCommas(s) == SelectSeq(s, LAMBDA c : c # ",")

RECURSIVE DigitsToNat(_)
DigitsToNat(s) ==
    IF s = <<>> THEN 0
    ELSE 10 * DigitsToNat(SubSeq(s, 1, Len(s) - 1)) + DigitVal(s[Len(s)])

RECURSIVE StripZeros(_)
StripZeros(s) ==
    IF s # <<>> /\ s[Len(s)] = "0" THEN StripZeros(SubSeq(s, 1, Len(s) - 1))
    ELSE s

\* float(t) for t over digits and dots: ValueError -> None
ParseFloat(t) ==
    LET dots == {i \in 1..Len(t) : t[i] = "."}
        ndig == Cardinality({i \in 1..Len(t) : IsDigit(t[i])})
    IN IF Cardinality(dots) > 1 \/ ndig = 0 THEN NotAvailable
       ELSE LET d == IF dots = {} THEN Len(t) + 1 ELSE CHOOSE i \in dots : TRUE
            IN [int |-> DigitsToNat(SubSeq(t, 1, d - 1)),
                frac |-> StripZeros(SubSeq(t, d + 1, Len(t)))]

clean_price(price_str) ==
    IF price_str = NoText \/ price_str = <<>> THEN NotAvailable
    ELSE LET run == FirstRun(price_str)
         IN IF run = <<>> THEN NotAvailable
            ELSE ParseFloat(RemoveCommas(run))

(***************************************************************************)
(* Feed documents.  A document is well formed or not; a well-formed one    *)
(* has a root tag and child elements.  A child is a `channel` (with its    *)
(* own children), an `item`, or an Atom `entry`.                           *)
(***************************************************************************)
ITEM == "item"
ENTRY == ATOM_NS \o "entry"
CHANNEL == "channel"

Ids == {None, "", "id1", "id2"}

\* the other fields of an element, in four shapes
Profiles == {"bare", "full", "atom", "fallback"}

Elem(tag, id, p) ==
    [tag |-> tag,
     children |-> <<>>,
     g_id |-> id,
     title |-> IF p = "full" THEN "T" ELSE None,
     atom_title |-> IF p = "atom" THEN "AT" ELSE None,
     link |-> IF p = "full" THEN "L" ELSE None,
     atom_link_alternate |-> IF p = "atom" THEN "AL" ELSE None,
     g_image_link |-> IF p = "full" THEN "I" ELSE None,
     g_brand |-> IF p \in {"full", "atom"} THEN "X" ELSE None,
     g_product_type |-> IF p = "full" THEN "C" ELSE IF p = "fallback" THEN "" ELSE None,
     g_custom_label_0 |-> IF p = "fallback" THEN "D" ELSE None,
     g_price |-> IF p = "full" THEN <<"A", " ", "1", ",", "2", "5", "0", ".", "5", "0">>
                 ELSE IF p = "fallback" THEN <<"1", ".", "2", ".", "3">>
                 ELSE IF p = "atom" THEN <<"4", "9", " ", "A">>
                 ELSE NoText,
     g_sale_price |-> IF p = "full" THEN <<>> ELSE NoText]

ChannelElem(kids) ==
    [Elem(CHANNEL, None, "bare") EXCEPT !.children = kids]

ElemsOf(tag) == {Elem(tag, id, p) : id \in Ids, p \in Profiles}

SeqsUpTo(S, n) == UNION {[1..k -> S] : k \in 0..n}

Malformed == [wf |-> FALSE, rootTag |-> "", children |-> <<>>]
Doc(root, kids) == [wf |-> TRUE, rootTag |-> root, children |-> kids]

\* channel family: <rss><channel><item/>...</channel></rss>
ChannelDocs(n) == {Doc("rss", <<ChannelElem(s)>>) : s \in SeqsUpTo(ElemsOf(ITEM), n)}
\* the root is itself the container
RootChannelDocs(n) == {Doc(CHANNEL, s) : s \in SeqsUpTo(ElemsOf(ITEM), n)}
RootFeedDocs(n) == {Doc("feed", s) : s \in SeqsUpTo(ElemsOf(ENTRY), n)}
\* Atom: <feed xmlns=atom><entry/>...</feed>
AtomDocs(n) == {Doc(ATOM_NS \o "feed", s) : s \in SeqsUpTo(ElemsOf(ENTRY), n)}
\* items directly under some other root
FallbackDocs(n) == {Doc("rss", s) : s \in SeqsUpTo(ElemsOf(ITEM), n)}

DocPool(n) ==
    {Malformed} \cup ChannelDocs(n) \cup RootChannelDocs(n) \cup RootFeedDocs(n)
        \cup AtomDocs(n) \cup FallbackDocs(n)

(***************************************************************************)
(* parse_xml_feed                                                          *)
(***************************************************************************)
FindAll(el, tag) == SelectSeq(el.children, LAMBDA c : c.tag = tag)
Has(el, tag) == FindAll(el, tag) # <<>>          \* el.find(tag) is not None
Find(el, tag) == Head(FindAll(el, tag))
IsAtomTag(tag) == tag \in {ENTRY, ATOM_NS \o "feed"}     \* tag.startswith('{atom}')

\* lines 63-77: the elements to extract from
ItemElements(root) ==
    IF Has(root, CHANNEL) THEN FindAll(Find(root, CHANNEL), ITEM)
    ELSE IF IsAtomTag(root.rootTag) THEN FindAll(root, ENTRY)
    ELSE IF root.rootTag = CHANNEL \/ root.rootTag = "feed"
         THEN (IF FindAll(root, ITEM) # <<>> THEN FindAll(root, ITEM)
               ELSE FindAll(root, ENTRY))
    ELSE FindAll(root, ITEM)

\* line 69 binds atom_ns_uri only on the branch where no channel child exists
AtomNsBound(root) == ~Has(root, CHANNEL)

\* lines 85-124 for one element: the record it contributes
ExtractRecord(el) ==
    LET is_atom_entry == IsAtomTag(el.tag)
        title == IF el.title = None /\ is_atom_entry THEN el.atom_title ELSE el.title
        link == IF el.link = None /\ is_atom_entry THEN el.atom_link_alternate
                ELSE el.link
        category == IF ~Truthy(el.g_product_type) THEN el.g_custom_label_0
                    ELSE el.g_product_type
    IN [product_id |-> el.g_id,
        title |-> title,
        brand |-> el.g_brand,
        category |-> category,
        price |-> clean_price(el.g_price),
        sale_price |-> clean_price(el.g_sale_price),
        link |-> link,
        image_link |-> el.g_image_link]

\* lines 79-124: the loop body appends when product_id is truthy
RECURSIVE ExtractAll(_)
ExtractAll(els) ==
    IF els = <<>> THEN <<>>
    ELSE LET rest == ExtractAll(Tail(els))
         IN IF Truthy(Head(els).g_id) THEN <<ExtractRecord(Head(els))>> \o rest
            ELSE rest

\* the whole function: the products returned and the st.error calls made
parse_xml_feed(xml) ==
    IF ~xml.wf
    THEN [products |-> <<>>, errors |-> <<"xml_parsing_error">>]      \* lines 125-127
    ELSE LET els == ItemElements(xml)
         IN IF els # <<>> /\ ~AtomNsBound(xml)
            \* line 85 reads the unbound local: UnboundLocalError, lines 128-130
            THEN [products |-> <<>>, errors |-> <<"unexpected_error">>]
            ELSE [products |-> ExtractAll(els), errors |-> <<>>]

(***************************************************************************)
(* SpecParse: parse_xml_feed on every document of the pool                 *)
(***************************************************************************)
Parse ==
    /\ ppc = "input"
    /\ pout' = parse_xml_feed(pdoc)
    /\ ppc' = "parsed"
    /\ UNCHANGED <<pdoc, cvars, lvars>>

IsChannelFamily(d) == d.wf /\ Has(d, CHANNEL)
ProductIds(recs) == [i \in 1..Len(recs) |-> recs[i].product_id]
ElementIds(els) == [i \in 1..Len(els) |-> els[i].g_id]

\* C9: for a channel-family document, the records returned are, in document
\* order, exactly the items whose identifier is non-empty, whatever other
\* fields the items lack.
C9_ChannelItemsWithIdKept ==
    (ppc = "parsed" /\ IsChannelFamily(pdoc)) =>
        ProductIds(pout.products) =
            SelectSeq(ElementIds(FindAll(Find(pdoc, CHANNEL), ITEM)), Truthy)

\* C10: no snapshot returned by parse_xml_feed holds two records with the
\* same product_id.
C10_ProductIdUnique ==
    ppc = "parsed" =>
        \A i, j \in 1..Len(pout.products) :
            i # j => pout.products[i].product_id # pout.products[j].product_id

(***************************************************************************)
(* SpecCompare: the filter and comparison pass of the script body (lines   *)
(* 215-276) on two loaded snapshots.  A row carries the columns the pass   *)
(* reads.                                                                  *)
(***************************************************************************)
Row(id, b, c) == [product_id |-> id, brand |-> b, category |-> c]

RowPool ==
    {Row("id1", "X", "C"), Row("id2", "Y", "C"), Row("id3", "X", None),
     Row("id2", "X", "D"), Row("id1", None, "C")}

\* lines 215-228: the pass stops unless both snapshots have rows
LoadedFrames(n) == SeqsUpTo(RowPool, n) \ {<<>>}

Column(df, col) == {df[i][col] : i \in 1..Len(df)}

\* lines 238-240, 245-247: dropna().unique() of both frames
CombinedOptions(a, b, col) == (Column(a, col) \cup Column(b, col)) \ {None}

\* df[df[col].isin(selected)]
IsIn(df, col, selected) == SelectSeq(df, LAMBDA r : r[col] \in selected)

\* the category dimension left out
ApplyFilters_BrandOnly(df, brands, categories) ==
    IF brands # {} THEN IsIn(df, "brand", brands) ELSE df

\* lines 255-265 for one frame: a dimension with no selection is skipped
ApplyFilters(df, brands, categories) ==
    LET byBrand == IF brands # {} THEN IsIn(df, "brand", brands) ELSE df
    IN IF categories # {} THEN IsIn(byBrand, "category", categories) ELSE byBrand

\* lines 268-269
IdSet(df) == IF df # <<>> THEN Column(df, "product_id") ELSE {}

OnlyIn_NoSubtract(a, b) == a         \* the difference left out

\* lines 271-273
OnlyIn(a, b) == a \ b
InBoth(a, b) == a \cap b

\* lines 177-181
get_product_details(df, product_ids) ==
    IF df = <<>> \/ product_ids = {} THEN <<>>
    ELSE IsIn(df, "product_id", product_ids)

CompareStart(frames) ==
    /\ cpc = "loaded"
    /\ df_A \in frames
    /\ df_B \in frames
    /\ selected_brands = {}
    /\ selected_categories = {}
    /\ df_A_filtered = <<>>
    /\ df_B_filtered = <<>>
    /\ products_only_in_A_ids = {}
    /\ products_only_in_B_ids = {}
    /\ products_in_both_ids = {}
    /\ df_only_in_A = <<>>
    /\ df_only_in_B = <<>>

\* lines 242, 249: the multiselects offer the values observed in either frame
SelectFilters ==
    /\ cpc = "loaded"
    /\ selected_brands' \in SUBSET CombinedOptions(df_A, df_B, "brand")
    /\ selected_categories' \in SUBSET CombinedOptions(df_A, df_B, "category")
    /\ cpc' = "selected"
    /\ UNCHANGED <<cinputs, cresults, pvars, lvars>>

\* lines 251-276
Compare ==
    /\ cpc = "selected"
    /\ LET fa == ApplyFilters(df_A, selected_brands, selected_categories)
           fb == ApplyFilters(df_B, selected_brands, selected_categories)
           ids_A == IdSet(fa)
           ids_B == IdSet(fb)
       IN /\ df_A_filtered' = fa
          /\ df_B_filtered' = fb
          /\ products_only_in_A_ids' = OnlyIn(ids_A, ids_B)
          /\ products_only_in_B_ids' = OnlyIn(ids_B, ids_A)
          /\ products_in_both_ids' = InBoth(ids_A, ids_B)
          /\ df_only_in_A' = get_product_details(fa, OnlyIn(ids_A, ids_B))
          /\ df_only_in_B' = get_product_details(fb, OnlyIn(ids_B, ids_A))
    /\ cpc' = "done"
    /\ UNCHANGED <<cinputs, cfilters, pvars, lvars>>

\* C1: the three identifier sets are pairwise disjoint and together are the
\* identifiers of filtered-A and filtered-B.
C1_ThreeSetsPartition ==
    cpc = "done" =>
        /\ products_only_in_A_ids \cap products_only_in_B_ids = {}
        /\ products_only_in_A_ids \cap products_in_both_ids = {}
        /\ products_only_in_B_ids \cap products_in_both_ids = {}
        /\ products_only_in_A_ids \cup products_only_in_B_ids
              \cup products_in_both_ids
            = Column(df_A_filtered, "product_id") \cup Column(df_B_filtered, "product_id")

C1_Witness ==
    /\ cpc = "done"
    /\ selected_brands # {}
    /\ products_only_in_A_ids # {}
    /\ products_only_in_B_ids # {}
    /\ products_in_both_ids # {}

Selected(r) ==
    /\ (selected_brands = {} \/ r.brand \in selected_brands)
    /\ (selected_categories = {} \/ r.category \in selected_categories)

RowsWithId(df, id) == {i \in 1..Len(df) : df[i].product_id = id}

\* C2: each filtered frame is exactly the rows of its snapshot whose brand
\* and category are selected (an empty selection selects everything); an
\* identifier none of whose rows has a selected brand is in none of the
\* three sets; and the brand filter {X} on A = id1(X), id2(Y), B = id2(Y),
\* id3(X) gives only-in-A = {id1}, only-in-B = {id3}, in-both = {}.
C2_FilterKeepsExactlySelected ==
    cpc = "done" =>
        /\ df_A_filtered = SelectSeq(df_A, Selected)
        /\ df_B_filtered = SelectSeq(df_B, Selected)
        /\ \A id \in Column(df_A, "product_id") \cup Column(df_B, "product_id") :
              (/\ selected_brands # {}
               /\ \A i \in RowsWithId(df_A, id) : df_A[i].brand \notin selected_brands
               /\ \A i \in RowsWithId(df_B, id) : df_B[i].brand \notin selected_brands)
              => id \notin products_only_in_A_ids \cup products_only_in_B_ids
                        \cup products_in_both_ids
        /\ (/\ df_A = <<Row("id1", "X", "C"), Row("id2", "Y", "C")>>
            /\ df_B = <<Row("id2", "Y", "C"), Row("id3", "X", None)>>
            /\ selected_brands = {"X"}
            /\ selected_categories = {})
           => /\ products_only_in_A_ids = {"id1"}
              /\ products_only_in_B_ids = {"id3"}
              /\ products_in_both_ids = {}

C2_Witness ==
    /\ cpc = "done"
    /\ df_A = <<Row("id1", "X", "C"), Row("id2", "Y", "C")>>
    /\ df_B = <<Row("id2", "Y", "C"), Row("id3", "X", None)>>
    /\ selected_brands = {"X"}
    /\ selected_categories = {}
    /\ products_only_in_A_ids = {"id1"}
    /\ products_only_in_B_ids = {"id3"}

(***************************************************************************)
(* Spec: load_or_fetch_feed_data (lines 133-175) for one entry of FEEDS,   *)
(* called repeatedly while the clock advances and the document behind the  *)
(* feed URL changes.  Files and memoized results of different entries have *)
(* different keys and do not interact.                                     *)
(***************************************************************************)
HoursPerDay == 24                    \* strftime("%Y-%m-%d") changes every 24 hours
TTL_HOURS == 4                       \* ttl=3600*4 seconds
StartHour == HoursPerDay - 1         \* the session starts in the last hour of day 0
Today(t) == t \div HoursPerDay       \* today_str, as a day number
Days == 0..Today(StartHour + MaxTicks)

COLUMNS ==
    <<"product_id", "title", "brand", "category", "price", "sale_price", "link",
      "image_link">>

\* pd.DataFrame(): no columns, no rows
EmptyFrame == [columns |-> <<>>, rows |-> <<>>]
\* pd.DataFrame(products_list): one row per dict, the dict keys as columns
DataFrame(products_list) == [columns |-> COLUMNS, rows |-> products_list]
IsEmpty(df) == df.rows = <<>>        \* df.empty

\* snapshot files: df.to_parquet(file, index=False) and pd.read_parquet(file)
NoFile == [exists |-> FALSE, schema |-> <<>>, table |-> <<>>]
to_parquet_Skipped(df) == NoFile             \* the write left out
to_parquet(df) == [exists |-> TRUE, schema |-> df.columns, table |-> df.rows]
read_parquet(file) == [columns |-> file.schema, rows |-> file.table]

\* the documents the feed URL serves over time
SourceDocs ==
    {Malformed,
     Doc("rss", <<ChannelElem(<<>>)>>),
     Doc("rss", <<ChannelElem(<<Elem(ITEM, "id1", "full")>>)>>),
     Doc(CHANNEL, <<Elem(ITEM, "id1", "full")>>),
     Doc("rss", <<Elem(ITEM, "id1", "full"), Elem(ITEM, "id2", "bare")>>)}

\* st.session_state at the time of a call holds the values of the keyed
\* widgets: the two selectboxes (lines 202-203) and, on later passes, the
\* two multiselects (lines 242, 249)
SessionStates == {<<"str", "str">>, <<"str", "str", "list", "list">>}

\* line 163: any(st.session_state.get(key, {}).get('type') == 'error' ...):
\* a value that is not a dict has no .get and raises AttributeError
RECURSIVE AnySessionError(_)
AnySessionError(ss) ==
    IF ss = <<>> THEN "false"
    ELSE IF Head(ss) \in {"str", "list"} THEN "raise"
    ELSE IF Head(ss) = "dict_error" THEN "true"
    ELSE AnySessionError(Tail(ss))

\* what the environment does during one call
Envs ==
    [readOk : BOOLEAN,                                \* pd.read_parquet succeeds
     http : {"ok", "request_failed", "bad_status"},   \* requests.get / raise_for_status
     utf8Ok : BOOLEAN,                                \* content.decode('utf-8') succeeds
     textOk : BOOLEAN,                                \* response.text succeeds
     writeOk : BOOLEAN,                               \* df.to_parquet succeeds
     session : SessionStates]

\* the environments that differ in a step the call takes: a step that is not
\* reached is recorded as succeeding
RelevantEnvs(hit, exists) ==
    {e \in Envs :
        /\ (hit \/ ~exists) => e.readOk
        /\ (hit \/ (exists /\ e.readOk)) => e.http = "ok"
        /\ e.http # "ok" => e.utf8Ok
        /\ e.utf8Ok => e.textOk
        /\ ~e.textOk => e.writeOk
        /\ hit => (e.writeOk /\ e.utf8Ok /\ e.session = <<"str", "str">>)}

Outcome(path, result, msgs, file) ==
    [path |-> path, result |-> result, msgs |-> msgs, file |-> file,
     fetched |-> FALSE, http |-> "none", decodeFailed |-> FALSE,
     parsedEmpty |-> FALSE, wrote |-> FALSE, raised |-> FALSE]

\* the generic handler missing: the exception leaves the call
GeneralHandler_Reraise(o) == [o EXCEPT !.raised = TRUE]

\* lines 173-175: except Exception
GeneralHandler(o) ==
    [o EXCEPT !.result = EmptyFrame, !.msgs = @ \o <<"error_general">>]

\* lines 170-172: except requests.exceptions.RequestException
RequestHandler(o) ==
    [o EXCEPT !.result = EmptyFrame, !.msgs = @ \o <<"error_download">>]

\* lines 159-169: parse, then persist and return a non-empty result
ParseAndStore(o, xml_content, env) ==
    LET p == parse_xml_feed(xml_content)
        o1 == [o EXCEPT !.msgs = @ \o p.errors]
    IN IF p.products = <<>>
       THEN LET o2 == [o1 EXCEPT !.parsedEmpty = TRUE]
                any == AnySessionError(env.session)
            IN IF any = "raise" THEN GeneralHandler(o2)
               ELSE IF any = "false"
                    THEN [o2 EXCEPT !.result = EmptyFrame,
                                    !.msgs = @ \o <<"warning_no_products">>]
               ELSE [o2 EXCEPT !.result = EmptyFrame]
       ELSE LET df == DataFrame(p.products)
            IN IF env.writeOk
               THEN [o1 EXCEPT !.result = df, !.file = to_parquet(df), !.wrote = TRUE]
               ELSE GeneralHandler(o1)

\* lines 149-157: download and decode
FetchAndParse(o0, served, env) ==
    LET o == [o0 EXCEPT !.path = "fetch", !.fetched = TRUE, !.http = env.http]
    IN IF env.http # "ok" THEN RequestHandler(o)
       ELSE IF env.utf8Ok \/ env.textOk THEN ParseAndStore(o, served, env)
       ELSE GeneralHandler([o EXCEPT !.decodeFailed = TRUE])

\* the failed read ends the call with an empty snapshot
ReadFailed_GiveUp(o, served, env) ==
    [o EXCEPT !.result = EmptyFrame, !.msgs = @ \o <<"warning_snapshot">>]

\* lines 145-146: a failed read warns and falls through to the fetch
ReadFailed(o, served, env) ==
    FetchAndParse([o EXCEPT !.msgs = @ \o <<"warning_snapshot">>], served, env)

\* the existence test dropped: every computed call fetches
SnapshotExists_Never(file) == FALSE

\* line 141
SnapshotExists(file) == file.exists

\* lines 136-175: the function body, given the snapshot file for
\* (feed, today), the document behind the URL and the environment
load_or_fetch_feed_data(file, served, env) ==
    LET o == Outcome("file", EmptyFrame, <<>>, file)
    IN IF SnapshotExists(file)
       THEN IF env.readOk THEN [o EXCEPT !.result = read_parquet(file)]
            ELSE ReadFailed(o, served, env)
       ELSE FetchAndParse(o, served, env)

\* line 133: st.cache_data keeps a result for ttl after it was computed
MemoHit(entry, t) == entry.valid /\ t < entry.at + TTL_HOURS

NoMemo ==
    [valid |-> FALSE, at |-> 0, value |-> EmptyFrame, msgs |-> <<>>, captured |-> 0,
     clean |-> TRUE]
NoCall == [valid |-> FALSE, day |-> 0, result |-> EmptyFrame, clean |-> FALSE]

Idle ==
    [called |-> FALSE, day |-> 0, fileExisted |-> FALSE, readFailed |-> FALSE,
     captured |-> 0, prev |-> NoCall, clean |-> TRUE,
     out |-> Outcome("none", EmptyFrame, <<>>, NoFile)]

LoadStart(docs) ==
    /\ now = StartHour
    /\ source \in docs
    /\ disk = [d \in Days |-> NoFile]
    /\ memo = NoMemo
    /\ last = Idle
    /\ tracker = NoCall

\* one call of the memoized function
Call ==
    \E env \in RelevantEnvs(MemoHit(memo, now), SnapshotExists(disk[Today(now)])) :
        LET today == Today(now)
            hit == MemoHit(memo, now)
            body == load_or_fetch_feed_data(disk[today], source, env)
            out == IF hit THEN Outcome("memo", memo.value, memo.msgs, disk[today])
                   ELSE body
            captured == IF hit THEN memo.captured ELSE today
            clean == IF hit THEN memo.clean
                     ELSE /\ env.readOk /\ env.writeOk /\ env.utf8Ok
                          /\ env.http = "ok"
        IN /\ disk' = [disk EXCEPT ![today] = out.file]
           /\ memo' = IF hit THEN memo
                      ELSE [valid |-> TRUE, at |-> now, value |-> out.result,
                            msgs |-> out.msgs, captured |-> today,
                            clean |-> clean]
           /\ last' = [called |-> TRUE, day |-> today,
                       fileExisted |-> ~hit /\ disk[today].exists,
                       readFailed |-> ~hit /\ disk[today].exists /\ ~env.readOk,
                       captured |-> captured, prev |-> tracker, clean |-> clean,
                       out |-> out]
           /\ tracker' = [valid |-> TRUE, day |-> today, result |-> out.result,
                          clean |-> clean]
           /\ UNCHANGED <<now, source, pvars, cvars>>

\* an hour passes
Tick ==
    /\ now < StartHour + MaxTicks
    /\ now' = now + 1
    /\ UNCHANGED <<source, disk, memo, last, tracker, pvars, cvars>>

\* the publisher replaces the document behind the feed URL
ChangeSource ==
    /\ \E d \in SourceDocs \ {source} : source' = d
    /\ tracker' = [tracker EXCEPT !.valid = FALSE]
    /\ UNCHANGED <<now, disk, memo, last, pvars, cvars>>

(***************************************************************************)
(* The specifications.  Each starts the part it exercises from its inputs  *)
(* and leaves the other parts at rest.                                     *)
(***************************************************************************)
ParseStart(docs) ==
    /\ pdoc \in docs
    /\ ppc = "input"
    /\ pout = [products |-> <<>>, errors |-> <<>>]

ParseInit == ParseStart(DocPool(MaxItems)) /\ CompareStart({<<>>}) /\ LoadStart({Malformed})
ParseNext == Parse
SpecParse == ParseInit /\ [][ParseNext]_vars

CompareInit ==
    CompareStart(LoadedFrames(MaxRows)) /\ ParseStart({Malformed}) /\ LoadStart({Malformed})
CompareNext == SelectFilters \/ Compare
SpecCompare == CompareInit /\ [][CompareNext]_vars

Init == LoadStart(SourceDocs) /\ ParseStart({Malformed}) /\ CompareStart({<<>>})
Next == Call \/ Tick \/ ChangeSource
Spec == Init /\ [][Next]_vars

(***************************************************************************)
(* Properties of load_or_fetch_feed_data                                   *)
(***************************************************************************)
Result == last.out.result
Reported == last.out.msgs
Computed == last.called /\ last.out.path # "memo"     \* the body ran

\* C3: a call never raises; when the request fails, the status is bad, the
\* body cannot be decoded or the parser returns no products, the call
\* returns an empty snapshot and has reported an error or a warning.
C3_FailureGivesEmptyAndReport ==
    last.called =>
        /\ ~last.out.raised
        /\ (/\ last.out.fetched
            /\ (last.out.http # "ok" \/ last.out.decodeFailed \/ last.out.parsedEmpty))
           => (IsEmpty(Result) /\ Reported # <<>>)

C3_Witness ==
    /\ last.called
    /\ last.out.parsedEmpty
    /\ source.wf
    /\ IsEmpty(Result)
    /\ Reported = <<"error_general">>

\* C4: when the snapshot file of today exists and is read, its contents are
\* returned and no request is made; when reading it fails, a warning is
\* reported and the call goes on to fetch the feed.
C4_SnapshotReadOrRefetch ==
    (Computed /\ last.fileExisted) =>
        /\ ~last.readFailed =>
              /\ last.out.path = "file"
              /\ ~last.out.fetched
              /\ Result = read_parquet(disk[last.day])
        /\ last.readFailed =>
              /\ Head(Reported) = "warning_snapshot"
              /\ last.out.fetched

C4_Witness ==
    /\ Computed
    /\ last.fileExisted
    /\ last.readFailed
    /\ last.out.fetched
    /\ ~IsEmpty(Result)

\* C5 as claimed: a snapshot obtained by fetching and parsing (nothing
\* failing in the call) is persisted under today's key before the call
\* returns, also when it is empty.
C5_FreshSnapshotPersisted ==
    (Computed /\ last.clean /\ last.out.path = "fetch") =>
        /\ disk[last.day].exists
        /\ read_parquet(disk[last.day]).rows = Result.rows

\* C5 amended: a non-empty snapshot returned from fetching and parsing has
\* been persisted under today's key; when the parser returns no products,
\* nothing is written and the call returns an empty snapshot.
C5_NonEmptyFreshSnapshotPersisted ==
    (Computed /\ last.out.path = "fetch") =>
        /\ ~IsEmpty(Result) =>
              /\ disk[last.day].exists
              /\ read_parquet(disk[last.day]) = Result
        /\ last.out.parsedEmpty => (~last.out.wrote /\ IsEmpty(Result))

C5_Witness ==
    /\ Computed
    /\ last.out.path = "fetch"
    /\ last.out.wrote
    /\ Len(Result.rows) = 2

\* C6 as claimed: a snapshot file, once written, is never changed by a
\* later call.
C6_SnapshotWrittenOnce ==
    [][\A d \in Days : disk[d].exists => disk'[d] = disk[d]]_vars

\* C6 amended: a snapshot file is never removed, and a call writes over an
\* existing snapshot file only after failing to read it.
C6_RewrittenOnlyAfterReadFailure ==
    [][/\ \A d \in Days :
            disk[d].exists =>
                /\ disk'[d].exists
                /\ disk'[d] # disk[d] =>
                      (last'.readFailed /\ last'.day = d /\ last'.out.wrote)
       /\ (last'.out.wrote /\ last'.fileExisted) => last'.readFailed]_vars

C6_Witness ==
    /\ Computed
    /\ last.fileExisted
    /\ last.readFailed
    /\ last.out.wrote
    /\ disk[last.day] = to_parquet(Result)

\* C7: the records a call returns were captured on the date of the call,
\* never on an earlier date, also when they come from the memoization.
C7_ReturnsTodaysSnapshot ==
    (last.called /\ ~IsEmpty(Result)) => last.captured = last.day

\* C8: two calls on the same date, the document behind the feed URL not
\* having changed between them and nothing failing in either, return the
\* same records.
C8_SameDaySameRecords ==
    (/\ last.called
     /\ last.prev.valid
     /\ last.prev.day = last.day
     /\ last.clean
     /\ last.prev.clean)
    => Result = last.prev.result

====
